---- MODULE Spec2Model ----
(***************************************************************************)
(* Instance lifecycle and session manager of the WhatsApp gateway          *)
(* (src/src/lib/whatsapp.ts, class WhatsAppManager) as a state machine.    *)
(*                                                                         *)
(* Every asynchronous method is cut at its awaits: the code between two    *)
(* awaits runs on the single-threaded event loop and is one atomic action. *)
(* Page and context calls are answered by the browser, which is outside    *)
(* the program: their outcome is a nondeterministic input of the action    *)
(* that resumes after the await.                                           *)
(***************************************************************************)
EXTENDS Integers, Sequences, FiniteSets, TLC

\* ---------------------------------------------------------------- bounds
MaxSess == 2        \* WAInstance objects created in one behaviour
MaxRuns == 2        \* initializePage runs alive at the same time on one object
MaxInflight == 2    \* ticks of one monitor suspended at the same time
MaxAttempts == 2    \* ticks one monitor starts in one behaviour
MaxQr == 2          \* distinct QR payloads the page can show
MaxAdmin == 2       \* POST /admin/instance requests in flight at the same time
MaxBrowsers == 2    \* browser processes launched in one behaviour
MaxStreams == 2     \* SSE streams opened in one behaviour
MaxMsgs == 2        \* messages of the campaign
MaxJobs == 2        \* jobs of the campaign queued or running at the same time
MaxReqs == 2        \* campaign requests in flight at the same time

\* ------------------------------------------------------ program constants
AttemptLimit == 120         \* monitorState: attempts > 120
waMaxInstances == 10        \* env.waMaxInstances, WA_MAX_INSTANCES default '10'

Ids == {"A", "B"}
Sess == 1..MaxSess
Runs == 1..(MaxSess * MaxRuns)
QrPayloads == 1..MaxQr
NoSess == 0                 \* Map.get() === undefined
NoQr == 0                   \* qrCode === undefined
Browsers == 1..MaxBrowsers
NoBrowser == 0              \* sharedBrowser === null; a call awaiting webkit.launch

\* the awaits of one monitor tick
TickPcs == {"pane", "profile", "canvas"}

\* messaging operations of the facade
CheckedOps == {"sendMessage", "sendText"}
StubOps == {"sendMedia", "sendMediaBase64", "sendLocation", "sendContact",
            "sendPoll", "sendPresence", "editMessage", "reactToMessage",
            "deleteMessage"}
MessagingOps == CheckedOps \cup StubOps

\* Playwright's resource types
ResourceTypes == {"document", "stylesheet", "image", "media", "font", "script",
                  "texttrack", "xhr", "fetch", "eventsource", "websocket",
                  "manifest", "other"}

\* URLs and the strings the filter looks for are sequences of pieces of
\* text; a URL includes a string if the string's pieces occur in it one
\* after the other (String.prototype.includes)
Includes(url, str) ==
    \E i \in 1..(Len(url) - Len(str) + 1) : SubSeq(url, i, i + Len(str) - 1) = str

WebWhatsapp == <<"web", ".", "whatsapp", ".", "com">>       \* 'web.whatsapp.com'
StaticWhatsapp == <<"static", ".", "whatsapp">>             \* 'static.whatsapp'
Whatsapp == <<"whatsapp">>                                  \* 'whatsapp'
WaMe == <<"wa", ".", "me">>                                 \* 'wa.me'

\* const blockedDomains, lines 211-215
blockedDomains ==
    { <<"google", "-", "analytics">>, <<"facebook", ".", "com", "/", "tr">>,
      <<"fbcdn", ".", "net">>, <<"doubleclick">>, <<"googletagmanager">>,
      <<"analytics">>, <<"crashlytics">>, <<"sentry", ".", "io">>, <<"hotjar">>,
      <<"clarity", ".", "ms">> }

\* the URLs the page asks for
Urls ==
    { <<"https://", "web", ".", "whatsapp", ".", "com", "/">>,
      <<"https://", "static", ".", "whatsapp", ".", "net", "/", "rsrc.php", "/", "app.js">>,
      <<"https://", "web", ".", "whatsapp", ".", "com", "/", "analytics", "/", "log">>,
      <<"https://", "www", ".", "google", "-", "analytics", ".", "com", "/", "collect">>,
      <<"wss://", "web", ".", "whatsapp", ".", "com", "/", "ws", "/", "chat">>,
      <<"wss://", "push", ".", "example", ".", "org", "/", "socket">>,
      <<"https://", "cdn", ".", "example", ".", "org", "/", "lib.js">>,
      <<"https://", "wa", ".", "me", "/", "15551234567">>,
      <<"https://", "pps", ".", "whatsapp", ".", "net", "/", "v", "/", "avatar.jpg">>,
      <<"https://", "o1", ".", "ingest", ".", "sentry", ".", "io", "/", "api">>,
      <<"https://", "www", ".", "facebook", ".", "com", "/", "tr", "?", "src", "=", "whatsapp">>,
      <<"wss://", "ws", ".", "hotjar", ".", "com", "/", "socket">> }

\* the handler of page.route('**/*'), lines 163-224, in the order of its
\* tests
routeFilter(resourceType, url) ==
    IF /\ resourceType \in {"document", "script"}
       /\ Includes(url, WebWhatsapp) \/ Includes(url, StaticWhatsapp)
    THEN "continue"
    ELSE IF /\ resourceType \in {"xhr", "fetch"}
            /\ Includes(url, Whatsapp) \/ Includes(url, WaMe)
    THEN "continue"
    ELSE IF resourceType = "websocket" THEN "continue"
    ELSE IF resourceType = "image" THEN "abort"
    ELSE IF resourceType = "font" THEN "abort"
    ELSE IF resourceType = "media" THEN "abort"
    ELSE IF resourceType \in {"manifest", "other", "texttrack", "eventsource"}
    THEN "abort"
    ELSE IF resourceType = "stylesheet" /\ ~Includes(url, WebWhatsapp)
    THEN "abort"
    ELSE IF \E domain \in blockedDomains : Includes(url, domain) THEN "abort"
    ELSE "continue"

\* no request is before the filter
NoRequest == [resourceType |-> "", url |-> <<>>, answer |-> ""]

\* the campaign's messages, the worker's job slots, the requests
Msgs == 1..MaxMsgs
Jobs == 1..MaxJobs
CampaignActions == {"start", "pause", "resume", "cancel"}

\* the SSE streams and the events each route subscribes to
Streams == 1..MaxStreams
QrStreamEvents == {"qr", "ready", "disconnected"}
SseEvents == {"qr", "ready", "authenticated", "auth_failure", "disconnected",
              "message", "message_create", "message_ack",
              "message_revoke_everyone", "group_join", "group_leave",
              "group_update", "call"}

\* The workloads the manager is driven with. Each one bounds what the
\* callers and the browser do in one behaviour: the instance ids in use,
\* the objects created per id, the initializePage runs alive at once on one
\* object, the ticks of one monitor in flight at once, the ticks one monitor
\* starts, the QR payloads the page shows, and which other callers are
\* active: "facade" for the messaging and settings calls, "admin" for the
\* admin routes that create and delete instances; under "outage" the store
\* may reject a write.
Workload(name, ids, perId, perSess, inflight, attempts, qr, callers) ==
    [name |-> name, ids |-> ids, perId |-> perId, perSess |-> perSess,
     inflight |-> inflight, attempts |-> attempts, qr |-> qr,
     facade |-> (callers = "facade"), admin |-> (callers = "admin"),
     outage |-> (callers = "outage")]

\* "race": concurrent connect calls on one id, monitors not ticking;
\* "overlap": two objects of one id with their monitors ticking;
\* "monitor": one object, overlapping ticks and a second monitor;
\* "reattach": one object, connect calls attaching further monitors;
\* "pair": two ids side by side; "facade": the messaging and settings calls;
\* "admin": instances created and deleted through the admin routes;
\* "outage": one session whose status writes the store may reject.
Loads ==
    { Workload("race", {"A"}, MaxSess, 1, 1, 0, 1, "routes"),
      Workload("overlap", {"A"}, 2, 1, 1, 1, 1, "routes"),
      Workload("monitor", {"A"}, 1, 2, MaxInflight, MaxAttempts, MaxQr, "routes"),
      Workload("reattach", {"A"}, 1, MaxRuns, 1, 1, 1, "routes"),
      Workload("pair", {"A", "B"}, 1, 1, 1, 1, 1, "routes"),
      Workload("facade", {"A"}, 1, 1, 1, 1, 1, "facade"),
      Workload("admin", {"A"}, 1, 1, 1, 0, 1, "admin"),
      Workload("outage", {"A"}, 1, 1, 1, 1, 1, "outage") }

\* The workload under which the shared browser is followed through its
\* launches and its loss: two objects of one id, created by connect calls
\* that may run concurrently, their monitors not ticking.
PoolLoad == Workload("pool", {"A"}, 2, 1, 1, 0, 1, "routes")

\* The workload under which a monitor runs to its attempts limit: one
\* object whose monitor may start every tick the code lets it start.
TimeoutLoad == Workload("timeout", {"A"}, 1, 1, 1, AttemptLimit + 2, 1, "routes")

VARIABLES
    instances,        \* Map<string, WAInstance>: id -> object, NoSess if absent
    inst,             \* the WAInstance objects: id, status, qrCode, qrCodeBase64
    ctx,              \* the browsing context of each object
    creating,         \* per id, connect calls suspended inside createInstance
    loggingOut,       \* objects whose logout call awaits context.close()
    runs,             \* initializePage runs and the monitor each one starts
    dbStatus,         \* prisma instance.status
    presenceTimers,   \* per id, periodic presence timers that are running
    booted,           \* main() has passed reconnectAll and serves requests
    load,             \* the workload of this behaviour, fixed by Init
    admin,            \* the store's instance rows and the admin requests in flight
    pool,             \* WhatsAppManager.sharedBrowser, the browser processes and
                      \* the createInstance calls past getSharedBrowser
    bus,              \* listeners the SSE streams hold on the event bus
    camp,             \* the campaign, its messages and the worker's jobs
    req,              \* a request seen by the route filter and the answer
    qrSeen,           \* per object, the payload of the last qr event emitted
    fx                \* what the last step did to the outside: events emitted,
                      \* log lines, store writes, bridge calls, results

vars == <<instances, inst, ctx, creating, loggingOut, runs,
          dbStatus, presenceTimers, booted, load, admin, pool, bus, camp, req,
          qrSeen, fx>>

\* the state outside the session manager
side == <<bus, camp, req, qrSeen>>

\* One effect of a step: its kind k, the instance id, the object s it is
\* about (NoSess if none), a name v (event, operation, log level, status), a
\* text d (log or error message) and a number n (QR payload, turn).
Fx(k, id, s, v, d, n) == [k |-> k, id |-> id, s |-> s, v |-> v, d |-> d, n |-> n]
Emit(kind, id, s, n) == Fx("emit", id, s, kind, "", n)
Log(level, id, s, msg) == Fx("log", id, s, level, msg, 0)
Persist(id, s, st) == Fx("db", id, s, st, "", 0)
Return(op, id, s) == Fx("return", id, s, op, "", 0)
Throw(op, id, err) == Fx("throw", id, 0, op, err, 0)

\* ------------------------------------------------------------- helpers
WAInstance(id) ==
    [id |-> id, status |-> "disconnected", qrCode |-> NoQr, qrCodeBase64 |-> NoQr]

FreeInstance == [id |-> "", status |-> "disconnected", qrCode |-> NoQr,
                 qrCodeBase64 |-> NoQr]

NoTicks == [p \in TickPcs |-> 0]
FreeRun == [sess |-> NoSess, phase |-> "free", attempts |-> 0, ticks |-> NoTicks]

Allocated == {s \in Sess : ctx[s] # "none"}
NextSess == Cardinality(Allocated) + 1

RECURSIVE SumOver(_, _)
SumOver(f, S) ==
    IF S = {} THEN 0
    ELSE LET x == CHOOSE y \in S : TRUE IN f[x] + SumOver(f, S \ {x})

Inflight(r) == SumOver(runs[r].ticks, TickPcs)

\* getStatus(instanceId)
getStatus(id) ==
    IF instances[id] = NoSess THEN "not_found" ELSE inst[instances[id]].status

\* getQRCode(instanceId)
getQRCode(id) ==
    IF instances[id] = NoSess THEN [qr |-> NoQr, qrBase64 |-> NoQr]
    ELSE [qr |-> inst[instances[id]].qrCode,
          qrBase64 |-> inst[instances[id]].qrCodeBase64]

\* getAllInstances()
getAllInstances == {id \in Ids : instances[id] # NoSess}

\* a page or context call on this object is answered only while its context
\* is open; afterwards it rejects
PageOpen(s) == ctx[s] = "open"

TypeOK ==
    /\ instances \in [Ids -> Sess \cup {NoSess}]
    /\ \A s \in Sess :
          /\ inst[s].status \in {"disconnected", "connecting", "connected", "qr"}
          /\ inst[s].qrCode \in QrPayloads \cup {NoQr}
          /\ inst[s].qrCodeBase64 \in QrPayloads \cup {NoQr}
          /\ ctx[s] \in {"none", "open", "closing", "closed"}
    /\ creating \in [Ids -> 0..MaxSess]
    /\ loggingOut \subseteq Sess
    /\ \A r \in Runs :
          /\ runs[r].phase \in {"free", "init", "polling", "stopped"}
          /\ runs[r].attempts \in 0..(AttemptLimit + 1)
    /\ dbStatus \in [Ids -> {"CONNECTED", "DISCONNECTED"}]
    /\ presenceTimers \in [Ids -> Nat]
    /\ booted \in BOOLEAN
    /\ load.name \in {l.name : l \in Loads}
                        \cup {"pool", "timeout", "sse", "campaign", "filter"}
    /\ req.answer \in {"", "pending", "continue", "abort"}
    /\ camp.status \in {"PENDING", "RUNNING", "PAUSED", "COMPLETED", "CANCELLED"}
    /\ camp.msgs \in [Msgs -> {"PENDING", "SENT", "FAILED"}]
    /\ camp.sends \in [Msgs -> 0..MaxJobs]
    /\ camp.queue \in 0..MaxJobs
    /\ admin.rows \subseteq Ids
    /\ admin.others \in Nat
    /\ admin.pending \in 0..MaxAdmin
    /\ \A id \in Ids : admin.deleting[id].phase \in {"idle", "logout", "row"}
    /\ pool.shared \in Browsers \cup {NoBrowser}
    /\ pool.live \subseteq Browsers
    /\ pool.launched \in 0..MaxBrowsers
    /\ pool.calls \in [Ids -> [Browsers \cup {NoBrowser} -> 0..MaxSess]]
    /\ pool.of \in [Sess -> Browsers \cup {NoBrowser}]
    /\ qrSeen \in [Sess -> QrPayloads \cup {NoQr}]
    /\ \A st \in Streams :
          /\ bus[st].route \in {"", "qr", "sse"}
          /\ bus[st].phase \in {"free", "open", "gone", "closed"}
          /\ bus[st].isConnected \in BOOLEAN
          /\ bus[st].handlers \subseteq SseEvents

\* no DELETE /admin/instance/:id request is in flight for an id
NotDeleting == [phase |-> "idle", s |-> NoSess]

\* prisma.instance.count()
instanceCount == Cardinality(admin.rows) + admin.others

\* a worker slot without a job
IdleJob == [phase |-> "idle", batch |-> {}, sent |-> FALSE]

\* the campaign as POST /campaign creates it: PENDING, its messages PENDING,
\* the counters 0; `sends` counts the sendText calls that delivered each
\* message, `queue` the jobs waiting in the BullMQ queue, `reqs` the requests
\* between their read of the campaign and their write
NewCampaign ==
    [status |-> "PENDING",
     msgs |-> [m \in Msgs |-> "PENDING"],
     sends |-> [m \in Msgs |-> 0],
     totalMessages |-> MaxMsgs,
     sentMessages |-> 0,
     failedMessages |-> 0,
     queue |-> 0,
     jobs |-> [j \in Jobs |-> IdleJob],
     reqs |-> [a \in CampaignActions |-> 0]]

\* a stream that has not been opened: no callback, no handler on the bus
NoStream == [route |-> "", id |-> "", phase |-> "free", isConnected |-> FALSE,
             handlers |-> {}]

\* waManager.listeners(event): the streams holding a handler for the event
listeners(event) == {st \in Streams : event \in bus[st].handlers}

\* emit() calls the handlers in the emitting step. The one handler that
\* writes program state is onReady of the QR stream, instance.routes.ts
\* lines 250-258: a ready event of the stream's instance sets isConnected.
OnEvents(emitted) ==
    [st \in Streams |->
        IF /\ bus[st].route = "qr"
           /\ st \in listeners("ready")
           /\ \E i \in DOMAIN emitted :
                 /\ emitted[i].k = "emit"
                 /\ emitted[i].v = "ready"
                 /\ emitted[i].id = bus[st].id
        THEN [bus[st] EXCEPT !.isConnected = TRUE]
        ELSE bus[st]]

\* no browser launched, no createInstance call past getSharedBrowser
NoPool ==
    [shared |-> NoBrowser, live |-> {}, launched |-> 0,
     calls |-> [id \in Ids |-> [b \in Browsers \cup {NoBrowser} |-> 0]],
     of |-> [s \in Sess |-> NoBrowser]]

\* createInstance calls of id that are past getSharedBrowser
Holding(id) == SumOver(pool.calls[id], Browsers \cup {NoBrowser})

\* createInstance calls awaiting webkit.launch
Launching == SumOver([id \in Ids |-> pool.calls[id][NoBrowser]], Ids)

\* the browser of this object has not terminated (where the browser is not
\* followed, it never terminates)
BrowserAlive(s) == pool.of[s] = NoBrowser \/ pool.of[s] \in pool.live

\* what the store may answer to a write: done, or rejected
StoreAnswers == IF load.outage THEN BOOLEAN ELSE {TRUE}

\* --------------------------------------------------------------- Init
\* State after `new WhatsAppManager()`: empty table, no timers. The store
\* holds whatever the previous process left: each instance was last seen
\* CONNECTED or DISCONNECTED; it holds a row for every instance id in use and
\* admin.others rows of instances that are never connected.
InitWith(loads) ==
    /\ instances = [id \in Ids |-> NoSess]
    /\ inst = [s \in Sess |-> FreeInstance]
    /\ ctx = [s \in Sess |-> "none"]
    /\ creating = [id \in Ids |-> 0]
    /\ loggingOut = {}
    /\ runs = [r \in Runs |-> FreeRun]
    /\ load \in loads
    /\ dbStatus \in [Ids -> {"CONNECTED", "DISCONNECTED"}]
    /\ \A id \in Ids \ load.ids : dbStatus[id] = "DISCONNECTED"
    /\ presenceTimers = [id \in Ids |-> 0]
    /\ booted = FALSE
    /\ admin = [rows |-> load.ids,
                others |-> IF load.admin THEN waMaxInstances - MaxAdmin ELSE 0,
                pending |-> 0,
                deleting |-> [id \in Ids |-> NotDeleting]]
    /\ pool = NoPool
    /\ bus = [st \in Streams |-> NoStream]
    /\ camp = NewCampaign
    /\ qrSeen = [s \in Sess |-> NoQr]
    /\ fx = <<>>

Init == InitWith(Loads) /\ req = NoRequest

\* ------------------------------------------------------------ connect
FreeRuns == {r \in Runs : runs[r].phase = "free"}
RunsOn(s) == {r \in Runs : runs[r].phase # "free" /\ runs[r].sess = s}

\* connect() as it would be if line 270 tested 'connected' alone
ConnectFromIgnoresConnecting(s) ==
    IF inst[s].status = "connected"
    THEN /\ fx' = <<Return("connect", inst[s].id, s)>>
         /\ UNCHANGED <<inst, runs>>
    ELSE /\ Cardinality(RunsOn(s)) < load.perSess
         /\ LET r == CHOOSE x \in FreeRuns : \A y \in FreeRuns : x <= y IN
            runs' = [runs EXCEPT ![r] = [FreeRun EXCEPT !.sess = s, !.phase = "init"]]
         /\ inst' = [inst EXCEPT ![s].status = "connecting"]
         /\ fx' = <<Emit("status_change", inst[s].id, s, 0),
                    Return("connect", inst[s].id, s)>>

\* connect(), from the status test on: lines 270-281. `s` is the object the
\* call found in the table. The call to
\* initializePage runs up to its first await, page.goto.
ConnectFrom(s) ==
    IF inst[s].status \in {"connected", "connecting"}
    THEN /\ fx' = <<Return("connect", inst[s].id, s)>>
         /\ UNCHANGED <<inst, runs>>
    ELSE /\ Cardinality(RunsOn(s)) < load.perSess
         /\ LET r == CHOOSE x \in FreeRuns : \A y \in FreeRuns : x <= y IN
            runs' = [runs EXCEPT ![r] = [FreeRun EXCEPT !.sess = s, !.phase = "init"]]
         /\ inst' = [inst EXCEPT ![s].status = "connecting"]
         /\ fx' = <<Emit("status_change", inst[s].id, s, 0),
                    Return("connect", inst[s].id, s)>>

\* createInstance(), lines 73-76: the has() test; the call then suspends at
\* its first await
CreateInstanceBegin(id) ==
    /\ instances[id] = NoSess
    /\ Cardinality({s \in Allocated : inst[s].id = id}) + creating[id]
          + Holding(id) < load.perId
    /\ creating' = [creating EXCEPT ![id] = @ + 1]

\* connect(instanceId), called by a route: lines 266-270
Connect(id) ==
    /\ booted
    /\ id \in load.ids
    /\ id \in admin.rows
    /\ IF instances[id] = NoSess
       THEN /\ CreateInstanceBegin(id)
            /\ fx' = <<>>
            /\ UNCHANGED <<inst, runs>>
       ELSE /\ ConnectFrom(instances[id])
            /\ UNCHANGED creating
    /\ UNCHANGED <<instances, ctx, loggingOut, dbStatus,
                   presenceTimers, booted, load, admin, pool, side>>

\* createInstance() and the rest of connect() without line 273, the emit
CreateInstanceDoneSilent(id) ==
    /\ creating[id] > 0
    /\ LET s == NextSess
           r == CHOOSE x \in FreeRuns : \A y \in FreeRuns : x <= y
       IN
       /\ inst' = [inst EXCEPT ![s] = [WAInstance(id) EXCEPT !.status = "connecting"]]
       /\ ctx' = [ctx EXCEPT ![s] = "open"]
       /\ instances' = [instances EXCEPT ![id] = s]
       /\ runs' = [runs EXCEPT ![r] = [FreeRun EXCEPT !.sess = s, !.phase = "init"]]
       /\ fx' = <<Return("connect", id, s)>>
    /\ creating' = [creating EXCEPT ![id] = @ - 1]
    /\ UNCHANGED <<loggingOut, dbStatus, presenceTimers, booted, load, admin, pool, side>>

\* createInstance(), lines 140-263: the context and page exist, the object
\* is put in the table with status 'disconnected' and the close listener is
\* registered. The promise resolves and connect() resumes at line 270 in the
\* same turn of the event loop (a microtask; browser events are tasks): the
\* new object is neither connected nor connecting, so lines 272-281 run.
\* Here the shared browser is not followed: getSharedBrowser() is one of the
\* awaits the call is suspended in (SpecPool cuts the call there).
CreateInstanceDone(id) ==
    /\ creating[id] > 0
    /\ LET s == NextSess
           r == CHOOSE x \in FreeRuns : \A y \in FreeRuns : x <= y
       IN
       /\ inst' = [inst EXCEPT ![s] = [WAInstance(id) EXCEPT !.status = "connecting"]]
       /\ ctx' = [ctx EXCEPT ![s] = "open"]
       /\ instances' = [instances EXCEPT ![id] = s]
       /\ runs' = [runs EXCEPT ![r] = [FreeRun EXCEPT !.sess = s, !.phase = "init"]]
       /\ fx' = <<Emit("status_change", id, s, 0), Return("connect", id, s)>>
    /\ creating' = [creating EXCEPT ![id] = @ - 1]
    /\ UNCHANGED <<loggingOut, dbStatus, presenceTimers, booted, load, admin, pool, side>>

\* createInstance() rejects (store lookup, browser launch or newContext
\* failed): connect() rejects with it. Where the shared browser is followed
\* (SpecPool) this is the store lookup, line 79.
CreateInstanceFail(id) ==
    /\ creating[id] > 0
    /\ creating' = [creating EXCEPT ![id] = @ - 1]
    /\ fx' = <<Throw("connect", id, "createInstance")>>
    /\ UNCHANGED <<instances, inst, ctx, loggingOut, runs, dbStatus,
                   presenceTimers, booted, load, admin, pool, side>>

\* ------------------------------------------------------ shared browser
\* getSharedBrowser(), lines 55-57 and 67-70: createInstance() has its row
\* from the store and tests the static reference. Without a browser the call
\* suspends at `await webkit.launch`; with one it goes on to
\* `await browser.newContext` holding that browser.
GetSharedBrowser(id) ==
    /\ creating[id] > 0
    /\ creating' = [creating EXCEPT ![id] = @ - 1]
    /\ IF pool.shared = NoBrowser
       THEN /\ pool.launched + Launching < MaxBrowsers
            /\ pool' = [pool EXCEPT !.calls[id][NoBrowser] = @ + 1]
            /\ fx' = <<Log("info", id, NoSess, "Launching SHARED WebKit Browser")>>
       ELSE /\ pool' = [pool EXCEPT !.calls[id][pool.shared] = @ + 1]
            /\ fx' = <<Log("info", id, NoSess, "Reusing existing SHARED WebKit Browser")>>
    /\ UNCHANGED <<instances, inst, ctx, loggingOut, runs, dbStatus,
                   presenceTimers, booted, load, admin, side>>

\* webkit.launch resolves, lines 58-66: the new browser is assigned to the
\* static reference, its 'disconnected' listener is registered, and the call
\* goes on holding it
LaunchDone(id) ==
    /\ pool.calls[id][NoBrowser] > 0
    /\ LET b == pool.launched + 1 IN
       /\ pool' = [pool EXCEPT !.shared = b,
                               !.live = @ \cup {b},
                               !.launched = b,
                               !.calls[id][NoBrowser] = @ - 1,
                               !.calls[id][b] = @ + 1]
       /\ fx' = <<Fx("launch", id, NoSess, "webkit", "", b)>>
    /\ UNCHANGED <<instances, inst, ctx, creating, loggingOut, runs, dbStatus,
                   presenceTimers, booted, load, admin, side>>

\* createInstance(), lines 140-263, in browser b: as CreateInstanceDone,
\* with the context made by `browser.newContext` of the browser the call
\* holds. A browser that has terminated makes no context.
NewContext(id, b) ==
    /\ pool.calls[id][b] > 0
    /\ b \in pool.live
    /\ LET s == NextSess
           r == CHOOSE x \in FreeRuns : \A y \in FreeRuns : x <= y
       IN
       /\ inst' = [inst EXCEPT ![s] = [WAInstance(id) EXCEPT !.status = "connecting"]]
       /\ ctx' = [ctx EXCEPT ![s] = "open"]
       /\ instances' = [instances EXCEPT ![id] = s]
       /\ runs' = [runs EXCEPT ![r] = [FreeRun EXCEPT !.sess = s, !.phase = "init"]]
       /\ pool' = [pool EXCEPT !.calls[id][b] = @ - 1, !.of[s] = b]
       /\ fx' = <<Emit("status_change", id, s, 0), Return("connect", id, s)>>
    /\ UNCHANGED <<creating, loggingOut, dbStatus, presenceTimers, booted,
                   load, admin, side>>

\* webkit.launch (b = NoBrowser) or browser.newContext rejects:
\* createInstance() and connect() reject with it
CreateInstanceReject(id, b) ==
    /\ pool.calls[id][b] > 0
    /\ pool' = [pool EXCEPT !.calls[id][b] = @ - 1]
    /\ fx' = <<Throw("connect", id, "createInstance")>>
    /\ UNCHANGED <<instances, inst, ctx, creating, loggingOut, runs, dbStatus,
                   presenceTimers, booted, load, admin, side>>

\* the 'disconnected' listener without line 65, the reset of the reference
BrowserDisconnectedKeepsRef(b) ==
    /\ b \in pool.live
    /\ pool' = [pool EXCEPT !.live = @ \ {b}]
    /\ ctx' = [s \in Sess |->
                 IF pool.of[s] = b /\ ctx[s] = "open" THEN "closing" ELSE ctx[s]]
    /\ fx' = <<Log("error", "", NoSess, "SHARED BROWSER DISCONNECTED! Resetting...")>>
    /\ UNCHANGED <<instances, inst, creating, loggingOut, runs, dbStatus,
                   presenceTimers, booted, load, admin, side>>

\* browser b terminates and its 'disconnected' listener runs, lines 63-66:
\* the static reference is reset, whichever browser it held. The contexts of
\* b answer no call any more; the browser reports each as closed in a task
\* of its own (ContextClose).
BrowserDisconnected(b) ==
    /\ b \in pool.live
    /\ pool' = [pool EXCEPT !.live = @ \ {b}, !.shared = NoBrowser]
    /\ ctx' = [s \in Sess |->
                 IF pool.of[s] = b /\ ctx[s] = "open" THEN "closing" ELSE ctx[s]]
    /\ fx' = <<Log("error", "", NoSess, "SHARED BROWSER DISCONNECTED! Resetting...")>>
    /\ UNCHANGED <<instances, inst, creating, loggingOut, runs, dbStatus,
                   presenceTimers, booted, load, admin, side>>

\* reconnectAll(), lines 459-464, called by main() before the server
\* listens: one connect per instance the store holds as CONNECTED, all in
\* the loop's one turn. The table is empty then, so every connect runs into
\* createInstance. `n` of an effect is the turn of reconnectAll, counted from
\* its call, in which that connect began: turn 1 follows the one await.
RECURSIVE ConnectStarts(_, _)
ConnectStarts(S, turn) ==
    IF S = {} THEN <<>>
    ELSE LET id == CHOOSE x \in S : TRUE
         IN <<Fx("connectStart", id, 0, "reconnectAll", "", turn)>>
                \o ConnectStarts(S \ {id}, turn)

ReconnectAll ==
    /\ ~booted
    /\ LET found == {id \in load.ids : dbStatus[id] = "CONNECTED"} IN
       /\ creating' = [id \in Ids |-> IF id \in found THEN 1 ELSE 0]
       /\ fx' = ConnectStarts(found, 1)
    /\ booted' = TRUE
    /\ UNCHANGED <<instances, inst, ctx, loggingOut, runs, dbStatus,
                   presenceTimers, load, admin, pool, side>>

\* ----------------------------------------------------- initializePage
SessOf(r) == runs[r].sess
IdOf(r) == inst[runs[r].sess].id

\* initializePage(), lines 284-306, resumes from its awaits, none of which
\* reads or writes the manager's state: page.goto and waitForTimeout, whose
\* rejection is caught at line 303 and logged; injectWPPScript(), which
\* catches its own errors and warns (lines 326-328). If nothing was thrown
\* into the catch, monitorState() sets the interval (lines 331-335).
\* waitForTimeout on a closed page rejects or merely waits, depending on the
\* Playwright build, so an injection failure may still reach monitorState.
InitializePage(r) ==
    /\ runs[r].phase = "init"
    /\ \E res \in {"gotoThrows", "injectFails", "ok"} :
          /\ res = "ok" => PageOpen(SessOf(r))
          /\ CASE res = "gotoThrows" ->
                    /\ runs' = [runs EXCEPT ![r] = FreeRun]
                    /\ fx' = <<Log("error", IdOf(r), SessOf(r), "Error during page initialization")>>
               [] res = "injectFails" ->
                    /\ runs' = [runs EXCEPT ![r].phase = "polling"]
                    /\ fx' = <<Log("warn", IdOf(r), SessOf(r), "Failed to inject WPPConnect script")>>
               [] res = "ok" ->
                    /\ runs' = [runs EXCEPT ![r].phase = "polling"]
                    /\ fx' = <<>>
    /\ UNCHANGED <<instances, inst, ctx, creating, loggingOut,
                   dbStatus, presenceTimers, booted, load, admin, pool, side>>

\* ------------------------------------------------------- monitorState
\* a tick of run r leaves await `from` and suspends at `to` ("" = it ends);
\* with `clear` the interval is cleared. A cleared monitor whose ticks have
\* all ended is garbage: its slot is free again.
MoveTick(r, from, to, clear) ==
    LET ticks == [p \in TickPcs |->
                    IF p = from /\ p = to THEN runs[r].ticks[p]
                    ELSE IF p = from THEN runs[r].ticks[p] - 1
                    ELSE IF p = to THEN runs[r].ticks[p] + 1
                    ELSE runs[r].ticks[p]]
        phase == IF clear THEN "stopped" ELSE runs[r].phase
    IN [runs EXCEPT ![r] =
            IF phase = "stopped" /\ ticks = NoTicks THEN FreeRun
            ELSE [@ EXCEPT !.ticks = ticks, !.phase = phase]]

\* the interval as it would be without the test of lines 336-339
TickStartNoLimit(r) ==
    /\ runs[r].phase = "polling"
    /\ runs[r].attempts < load.attempts
    /\ Inflight(r) < load.inflight
    /\ runs' = [runs EXCEPT ![r].attempts = @ + 1,
                            ![r].ticks["pane"] = @ + 1]
    /\ fx' = <<>>
    /\ UNCHANGED <<instances, inst, ctx, creating, loggingOut,
                   dbStatus, presenceTimers, booted, load, admin, pool, side>>

\* the interval fires, lines 335-344: the attempts test, then the tick
\* suspends at page.$('#pane-side'). setInterval does not wait for the
\* promise of the previous callback. The workload bounds the ticks that are
\* started, not the firing that clears the interval.
TickStart(r) ==
    /\ runs[r].phase = "polling"
    /\ runs[r].attempts < load.attempts
    /\ runs[r].attempts > AttemptLimit \/ Inflight(r) < load.inflight
    /\ IF runs[r].attempts > AttemptLimit
       THEN runs' = MoveTick(r, "", "", TRUE)
       ELSE runs' = [runs EXCEPT ![r].attempts = @ + 1,
                                 ![r].ticks["pane"] = @ + 1]
    /\ fx' = <<>>
    /\ UNCHANGED <<instances, inst, ctx, creating, loggingOut,
                   dbStatus, presenceTimers, booted, load, admin, pool, side>>

\* the catch of the tick, lines 389-391: the error of a page read that was
\* awaited at `pc` is ignored
Caught(r, pc) == Fx("caught", IdOf(r), SessOf(r), "tick", pc, r)

\* lines 348-350 without the two assignments that drop the QR
MarkConnectedKeepsQr(s) == [inst EXCEPT ![s].status = "connected"]

\* lines 348-350: the object becomes connected and its QR is dropped
MarkConnected(s) ==
    [inst EXCEPT ![s].status = "connected",
                 ![s].qrCode = NoQr,
                 ![s].qrCodeBase64 = NoQr]

\* page.$('#pane-side') answers, lines 344-353 and 367-371. Found and not
\* yet connected: the status is set and the QR cleared before the next
\* await. Not found: the tick goes on to read the QR canvas.
TickPane(r) ==
    /\ runs[r].ticks["pane"] > 0
    /\ \E res \in {"throws", "found", "null"} :
          /\ res # "throws" => PageOpen(SessOf(r))
          /\ CASE res = "throws" ->
                    /\ runs' = MoveTick(r, "pane", "", FALSE)
                    /\ UNCHANGED inst
               [] res = "found" ->
                    IF inst[SessOf(r)].status # "connected"
                    THEN /\ inst' = MarkConnected(SessOf(r))
                         /\ runs' = MoveTick(r, "pane", "profile", FALSE)
                    ELSE /\ runs' = MoveTick(r, "pane", "", FALSE)
                         /\ UNCHANGED inst
               [] res = "null" ->
                    /\ runs' = MoveTick(r, "pane", "canvas", FALSE)
                    /\ UNCHANGED inst
          /\ fx' = IF res = "throws" THEN <<Caught(r, "pane")>> ELSE <<>>
    /\ UNCHANGED <<instances, ctx, creating, loggingOut, dbStatus,
                   presenceTimers, booted, load, admin, pool, side>>

\* updateInstanceStatus(id, status), lines 407-412: the store's row
updateInstanceStatus(id, st) == [dbStatus EXCEPT ![id] = st]

\* `this.updateInstanceStatus(id, status)` as its two callers write it, lines
\* 252 and 362: the promise is neither awaited nor given a catch, so a write
\* the store rejects surfaces as an unhandled rejection of the process
Unhandled(ok, id, s, st) ==
    IF ok THEN <<>>
    ELSE <<Fx("unhandledRejection", id, s, "updateInstanceStatus", st, 0)>>

\* The awaits of the connected branch, lines 353-365, none of which reads or
\* writes the manager's state: page.evaluate(typeof window.WPP), which may
\* reject into the tick's catch; injectWPPScript() and extractProfileInfo(),
\* which catch their own errors and never reject. Then the status is
\* persisted, ready and authenticated are emitted, the interval is cleared.
TickProfile(r) ==
    /\ runs[r].ticks["profile"] > 0
    /\ \E res \in {"throws", "swallowed", "ok"} :
          /\ res = "ok" => PageOpen(SessOf(r))
          /\ IF res = "throws"
             THEN /\ runs' = MoveTick(r, "profile", "", FALSE)
                  /\ fx' = <<Caught(r, "profile")>>
                  /\ UNCHANGED dbStatus
             ELSE /\ runs' = MoveTick(r, "profile", "", TRUE)
                  /\ \E ok \in StoreAnswers :
                        /\ dbStatus' = IF ok
                                       THEN updateInstanceStatus(IdOf(r), "CONNECTED")
                                       ELSE dbStatus
                        /\ fx' = (IF res = "ok" THEN <<>>
                                  ELSE <<Log("error", IdOf(r), SessOf(r),
                                             "Error extracting profile info")>>)
                                 \o <<Persist(IdOf(r), SessOf(r), "CONNECTED"),
                                      Emit("ready", IdOf(r), SessOf(r), 0),
                                      Emit("authenticated", IdOf(r), SessOf(r), 0)>>
                                 \o Unhandled(ok, IdOf(r), SessOf(r), "CONNECTED")
    /\ bus' = OnEvents(fx')
    /\ UNCHANGED <<instances, inst, ctx, creating, loggingOut,
                   presenceTimers, booted, load, admin, pool, camp, req, qrSeen>>

\* page.$('canvas') and page.evaluate(canvas.toDataURL()) answer, lines
\* 371-386; NoQr is no canvas or a null data URL
TickCanvas(r) ==
    /\ runs[r].ticks["canvas"] > 0
    /\ \E res \in {"throws", "value"}, qrBase64 \in (1..load.qr) \cup {NoQr} :
          /\ res # "throws" => PageOpen(SessOf(r))
          /\ res = "throws" => qrBase64 = NoQr
          /\ IF res = "value" /\ qrBase64 # NoQr
                /\ inst[SessOf(r)].qrCodeBase64 # qrBase64
             THEN /\ inst' = [inst EXCEPT ![SessOf(r)].status = "qr",
                                          ![SessOf(r)].qrCode = qrBase64,
                                          ![SessOf(r)].qrCodeBase64 = qrBase64]
                  /\ fx' = <<Emit("qr", IdOf(r), SessOf(r), qrBase64)>>
                  /\ qrSeen' = [qrSeen EXCEPT ![SessOf(r)] = qrBase64]
             ELSE /\ UNCHANGED <<inst, qrSeen>>
                  /\ fx' = IF res = "throws" THEN <<Caught(r, "canvas")>> ELSE <<>>
    /\ runs' = MoveTick(r, "canvas", "", FALSE)
    /\ UNCHANGED <<instances, ctx, creating, loggingOut, dbStatus,
                   presenceTimers, booted, load, admin, pool, bus, camp, req>>

\* ------------------------------------------------- close, logout
\* the close listener without line 254, this.instances.delete(instanceId)
CloseHandlerKeepsEntry(s) ==
    /\ dbStatus' = updateInstanceStatus(inst[s].id, "DISCONNECTED")
    /\ inst' = [inst EXCEPT ![s].status = "disconnected"]
    /\ UNCHANGED instances
    /\ fx' = <<Persist(inst[s].id, s, "DISCONNECTED"),
               Emit("disconnected", inst[s].id, s, 0)>>

\* the close listener without line 253, instance.status = 'disconnected'
CloseHandlerKeepsStatus(s) ==
    /\ dbStatus' = updateInstanceStatus(inst[s].id, "DISCONNECTED")
    /\ UNCHANGED inst
    /\ instances' = [instances EXCEPT ![inst[s].id] = NoSess]
    /\ fx' = <<Persist(inst[s].id, s, "DISCONNECTED"),
               Emit("disconnected", inst[s].id, s, 0)>>

\* the close listener as it would be if line 254 emptied the table
CloseHandlerClearsTable(s) ==
    /\ dbStatus' = updateInstanceStatus(inst[s].id, "DISCONNECTED")
    /\ inst' = [inst EXCEPT ![s].status = "disconnected"]
    /\ instances' = [id \in Ids |-> NoSess]
    /\ fx' = <<Persist(inst[s].id, s, "DISCONNECTED"),
               Emit("disconnected", inst[s].id, s, 0)>>

\* context.on('close', ...), lines 251-261
CloseHandler(s) ==
    /\ inst' = [inst EXCEPT ![s].status = "disconnected"]
    /\ instances' = [instances EXCEPT ![inst[s].id] = NoSess]
    /\ \E ok \in StoreAnswers :
          /\ dbStatus' = IF ok THEN updateInstanceStatus(inst[s].id, "DISCONNECTED")
                         ELSE dbStatus
          /\ fx' = <<Persist(inst[s].id, s, "DISCONNECTED"),
                     Emit("disconnected", inst[s].id, s, 0)>>
                   \o Unhandled(ok, inst[s].id, s, "DISCONNECTED")

\* the context closes, after logout's context.close() or on its own (page
\* crash, browser gone), and its 'close' listener runs
ContextClose(s) ==
    /\ ctx[s] \in {"open", "closing"}
    /\ ctx' = [ctx EXCEPT ![s] = "closed"]
    /\ CloseHandler(s)
    /\ UNCHANGED <<creating, loggingOut, runs, presenceTimers,
                   booted, load, admin, pool, side>>

\* logout(instanceId), lines 576-579, up to `await context.close()`;
\* disconnect() and deleteInstance() are this call (lines 571, 584-587)
Logout(id) ==
    /\ booted
    /\ id \in load.ids
    /\ IF instances[id] = NoSess
       THEN /\ fx' = <<Return("logout", id, NoSess)>>
            /\ UNCHANGED <<ctx, loggingOut>>
       ELSE /\ instances[id] \notin loggingOut
            /\ ctx' = [ctx EXCEPT ![instances[id]] =
                          IF @ = "open" THEN "closing" ELSE @]
            /\ loggingOut' = loggingOut \cup {instances[id]}
            /\ fx' = <<>>
    /\ UNCHANGED <<instances, inst, creating, runs, dbStatus,
                   presenceTimers, booted, load, admin, pool, side>>

\* logout() resumes from `await instance.context.close().catch(() => { })`,
\* lines 579-580, and deletes the table's entry of that id. close() resolves
\* once the context has closed. It may also reject; the rejection is
\* swallowed, and the context has then closed or is still open, as the
\* browser left it; the context of a browser that has terminated is not open.
LogoutResume(s) ==
    /\ s \in loggingOut
    /\ \E res \in {"resolved", "rejected"} :
          /\ res = "resolved" => ctx[s] = "closed"
          /\ ctx' = [ctx EXCEPT ![s] =
                        IF @ = "closing" /\ BrowserAlive(s) THEN "open" ELSE @]
          /\ fx' = (IF res = "rejected"
                    THEN <<Fx("caught", inst[s].id, s, "logout", "context.close", 0)>>
                    ELSE <<>>)
                   \o <<Return("logout", inst[s].id, s)>>
    /\ loggingOut' = loggingOut \ {s}
    /\ instances' = [instances EXCEPT ![inst[s].id] = NoSess]
    /\ admin' = IF admin.deleting[inst[s].id] = [phase |-> "logout", s |-> s]
                THEN [admin EXCEPT !.deleting[inst[s].id] =
                                        [phase |-> "row", s |-> NoSess]]
                ELSE admin
    /\ UNCHANGED <<inst, creating, runs, dbStatus, presenceTimers, booted, load, pool, side>>

\* ------------------------------------------------ messaging, settings
\* sendMessage / sendText, lines 471-489 and 541-543: the guard, then the
\* bridge call inside the page. The other operations, lines 530-538, have
\* empty bodies.
MessagingOp(op, id) ==
    /\ booted
    /\ load.facade
    /\ id \in load.ids
    /\ IF op \in StubOps
       THEN fx' = <<Return(op, id, NoSess)>>
       ELSE IF instances[id] = NoSess \/ inst[instances[id]].status # "connected"
       THEN fx' = <<Throw(op, id, "Instance not connected")>>
       ELSE \E ok \in BOOLEAN :
               /\ ok => PageOpen(instances[id])
               /\ fx' = <<Fx("bridge", id, instances[id], op, "", 0),
                          IF ok THEN Return(op, id, instances[id])
                          ELSE Throw(op, id, "OperationFailed")>>
    /\ UNCHANGED <<instances, inst, ctx, creating, loggingOut, runs,
                   dbStatus, presenceTimers, booted, load, admin, pool, side>>

\* updateInstanceSettings(_id, _settings), lines 561-563: an empty body.
\* The PATCH /instance/:id/settings route calls it with the stored row,
\* whose alwaysOnline is a boolean.
UpdateInstanceSettings(id, alwaysOnline) ==
    /\ booted
    /\ load.facade
    /\ id \in load.ids
    /\ fx' = <<Fx("settings", id, instances[id],
                  IF alwaysOnline THEN "on" ELSE "off", "", 0)>>
    /\ UNCHANGED <<instances, inst, ctx, creating, loggingOut, runs,
                   dbStatus, presenceTimers, booted, load, admin, pool, side>>

\* ------------------------------------------------------- admin routes
\* POST /admin/instance, part_002 lines 271-282: the store answers the count
\* and the limit is tested; a request under the limit goes on to its
\* `await prisma.instance.create`
AdminCreate ==
    /\ booted
    /\ load.admin
    /\ admin.pending < MaxAdmin
    /\ IF instanceCount >= waMaxInstances
       THEN /\ fx' = <<Throw("adminCreate", "", "Maximum number of instances reached")>>
            /\ UNCHANGED admin
       ELSE /\ admin' = [admin EXCEPT !.pending = @ + 1]
            /\ fx' = <<>>
    /\ UNCHANGED <<instances, inst, ctx, creating, loggingOut, runs, dbStatus,
                   presenceTimers, booted, load, pool, side>>

\* POST /admin/instance, lines 284-310: the store inserts the row
AdminCreateInsert ==
    /\ admin.pending > 0
    /\ admin' = [admin EXCEPT !.pending = @ - 1, !.others = @ + 1]
    /\ fx' = <<Return("adminCreate", "", NoSess)>>
    /\ UNCHANGED <<instances, inst, ctx, creating, loggingOut, runs, dbStatus,
                   presenceTimers, booted, load, pool, side>>

\* DELETE /admin/instance/:id, part_002 lines 442-450: deleteInstance(id) is
\* logout(id), run up to its `await context.close()`; without a session it
\* returns at once and the route goes on to `await prisma.instance.delete`
AdminDelete(id) ==
    /\ booted
    /\ load.admin
    /\ id \in admin.rows
    /\ admin.deleting[id] = NotDeleting
    /\ IF instances[id] = NoSess
       THEN /\ admin' = [admin EXCEPT !.deleting[id] = [phase |-> "row", s |-> NoSess]]
            /\ UNCHANGED <<ctx, loggingOut>>
       ELSE /\ instances[id] \notin loggingOut
            /\ ctx' = [ctx EXCEPT ![instances[id]] =
                          IF @ = "open" THEN "closing" ELSE @]
            /\ loggingOut' = loggingOut \cup {instances[id]}
            /\ admin' = [admin EXCEPT !.deleting[id] =
                                        [phase |-> "logout", s |-> instances[id]]]
    /\ fx' = <<>>
    /\ UNCHANGED <<instances, inst, creating, runs, dbStatus, presenceTimers,
                   booted, load, pool, side>>

\* DELETE /admin/instance/:id, lines 452-461: the store deletes the row and
\* the route answers
AdminDeleteRow(id) ==
    /\ admin.deleting[id].phase = "row"
    /\ admin' = [admin EXCEPT !.rows = @ \ {id}, !.deleting[id] = NotDeleting]
    /\ fx' = <<Return("adminDelete", id, NoSess)>>
    /\ UNCHANGED <<instances, inst, ctx, creating, loggingOut, runs, dbStatus,
                   presenceTimers, booted, load, pool, side>>

\* ---------------------------------------------------------------- Next
Next ==
    \/ ReconnectAll
    \/ \E id \in Ids : Connect(id)
    \/ \E id \in Ids : CreateInstanceDone(id)
    \/ \E id \in Ids : CreateInstanceFail(id)
    \/ \E r \in Runs : InitializePage(r)
    \/ \E r \in Runs : TickStart(r)
    \/ \E r \in Runs : TickPane(r)
    \/ \E r \in Runs : TickProfile(r)
    \/ \E r \in Runs : TickCanvas(r)
    \/ \E s \in Sess : ContextClose(s)
    \/ \E id \in Ids : Logout(id)
    \/ \E s \in Sess : LogoutResume(s)
    \/ \E op \in MessagingOps, id \in Ids : MessagingOp(op, id)
    \/ \E id \in Ids, on \in BOOLEAN : UpdateInstanceSettings(id, on)
    \/ AdminCreate
    \/ AdminCreateInsert
    \/ \E id \in Ids : AdminDelete(id)
    \/ \E id \in Ids : AdminDeleteRow(id)

Spec == Init /\ [][Next]_vars

\* ------------------------------------------- the shared browser followed
\* createInstance() cut at getSharedBrowser() and at webkit.launch, and the
\* browser processes terminating
InitPool == InitWith({PoolLoad}) /\ req = NoRequest

NextPool ==
    \/ ReconnectAll
    \/ \E id \in Ids : Connect(id)
    \/ \E id \in Ids : CreateInstanceFail(id)
    \/ \E id \in Ids : GetSharedBrowser(id)
    \/ \E id \in Ids : LaunchDone(id)
    \/ \E id \in Ids, b \in Browsers : NewContext(id, b)
    \/ \E id \in Ids, b \in Browsers \cup {NoBrowser} : CreateInstanceReject(id, b)
    \/ \E b \in Browsers : BrowserDisconnected(b)
    \/ \E r \in Runs : InitializePage(r)
    \/ \E s \in Sess : ContextClose(s)
    \/ \E id \in Ids : Logout(id)
    \/ \E s \in Sess : LogoutResume(s)

\* the browser reports the close of every context of a browser that has
\* terminated
LostContextClose(s) == ContextClose(s) /\ ~BrowserAlive(s)

SpecPool ==
    /\ InitPool
    /\ [][NextPool]_vars
    /\ \A s \in Sess : WF_vars(LostContextClose(s))

\* ------------------------------------------------------- SSE streams
manager == <<instances, inst, ctx, creating, loggingOut, runs, dbStatus,
             presenceTimers, booted, load, admin, pool>>

\* GET /instance/:id/qr/stream, instance.routes.ts lines 238-283: the
\* callback of streamSSE registers its three handlers, writes the status
\* and suspends at stream.sleep(30000)
OpenQrStream(st, id) ==
    /\ booted
    /\ id \in admin.rows
    /\ bus[st].phase = "free"
    /\ \A x \in Streams : x < st => bus[x].phase # "free"
    /\ bus' = [bus EXCEPT ![st] = [route |-> "qr", id |-> id, phase |-> "open",
                                   isConnected |-> FALSE,
                                   handlers |-> QrStreamEvents]]
    /\ fx' = <<Fx("sse", id, instances[id], "status", getStatus(id), st)>>
    /\ UNCHANGED <<manager, camp, req, qrSeen>>

\* GET /sse/:instanceId, lines 690-735: the status is written, a handler is
\* registered for each of the events, the keep-alive interval is set and
\* the callback suspends at stream.sleep(60000). writeSSE swallows the
\* error of a write to a closed stream, so its await always resumes.
OpenSseStream(st, id) ==
    /\ booted
    /\ id \in load.ids
    /\ bus[st].phase = "free"
    /\ \A x \in Streams : x < st => bus[x].phase # "free"
    /\ bus' = [bus EXCEPT ![st] = [route |-> "sse", id |-> id, phase |-> "open",
                                   isConnected |-> FALSE,
                                   handlers |-> SseEvents]]
    /\ fx' = <<Fx("sse", id, instances[id], "status", getStatus(id), st)>>
    /\ UNCHANGED <<manager, camp, req, qrSeen>>

\* the client of a stream goes away: the response stream is cancelled.
\* Neither callback registers stream.onAbort, and stream.sleep is a timer
\* that knows nothing of the client, so no code of the route runs.
ClientDisconnect(st) ==
    /\ bus[st].phase = "open"
    /\ bus' = [bus EXCEPT ![st].phase = "gone"]
    /\ fx' = <<Fx("sse", bus[st].id, NoSess, "abort", "", st)>>
    /\ UNCHANGED <<manager, camp, req, qrSeen>>

\* stream.sleep(30000) of the QR stream resolves, lines 276-289: a ping is
\* written and the loop tests isConnected; once it is set the callback
\* removes its three handlers and returns
QrStreamWake(st) ==
    /\ bus[st].route = "qr"
    /\ bus[st].phase \in {"open", "gone"}
    /\ IF bus[st].isConnected
       THEN bus' = [bus EXCEPT ![st].handlers = {}, ![st].phase = "closed"]
       ELSE UNCHANGED bus
    /\ fx' = <<Fx("sse", bus[st].id, NoSess, "ping", "", st)>>
    /\ UNCHANGED <<manager, camp, req, qrSeen>>

\* stream.sleep(60000) of the /sse stream resolves, lines 737-741: the loop
\* is `while (true)` and sleep never rejects, so the callback sleeps again;
\* the finally block of lines 742-748 is not reached
SseStreamWake(st) ==
    /\ bus[st].route = "sse"
    /\ bus[st].phase \in {"open", "gone"}
    /\ fx' = <<Fx("sse", bus[st].id, NoSess, "sleep", "", st)>>
    /\ UNCHANGED <<manager, bus, camp, req, qrSeen>>

\* One session and the streams of its instance. The timers of stream.sleep
\* fire.
SseLoad == Workload("sse", {"A"}, 1, 1, 1, 1, 1, "routes")

InitSse == InitWith({SseLoad}) /\ req = NoRequest

NextSse ==
    \/ ReconnectAll
    \/ \E id \in Ids : Connect(id)
    \/ \E id \in Ids : CreateInstanceDone(id)
    \/ \E id \in Ids : CreateInstanceFail(id)
    \/ \E r \in Runs : InitializePage(r)
    \/ \E r \in Runs : TickStart(r)
    \/ \E r \in Runs : TickPane(r)
    \/ \E r \in Runs : TickProfile(r)
    \/ \E r \in Runs : TickCanvas(r)
    \/ \E s \in Sess : ContextClose(s)
    \/ \E id \in Ids : Logout(id)
    \/ \E s \in Sess : LogoutResume(s)
    \/ \E st \in Streams, id \in Ids : OpenQrStream(st, id)
    \/ \E st \in Streams, id \in Ids : OpenSseStream(st, id)
    \/ \E st \in Streams : ClientDisconnect(st)
    \/ \E st \in Streams : QrStreamWake(st)
    \/ \E st \in Streams : SseStreamWake(st)

SpecSse ==
    /\ InitSse
    /\ [][NextSse]_vars
    /\ \A st \in Streams : WF_vars(QrStreamWake(st)) /\ WF_vars(SseStreamWake(st))

\* ----------------------------------------------------------- campaigns
\* The routes and the worker of part_002, cut at their awaits. Whether the
\* instance of the campaign is connected is an input of the step that asks.
JobsAlive ==
    camp.queue + Cardinality({j \in Jobs : camp.jobs[j].phase # "idle"})

ReqsInFlight == SumOver(camp.reqs, CampaignActions)

\* POST /campaign/:id/start, lines 958-984: the campaign is read and must be
\* PENDING, the instance connected; the request goes on to its update
CampaignStartCheck ==
    /\ ReqsInFlight < MaxReqs
    /\ \E connected \in BOOLEAN :
          IF camp.status = "PENDING" /\ connected
          THEN /\ camp' = [camp EXCEPT !.reqs["start"] = @ + 1]
               /\ fx' = <<>>
          ELSE /\ fx' = <<Throw("campaignStart", "", "rejected")>>
               /\ UNCHANGED camp
    /\ UNCHANGED <<manager, bus, req, qrSeen>>

\* POST /campaign/:id/start, lines 986-1002: status RUNNING is written and
\* a job is added to the queue
CampaignStartCommit ==
    /\ camp.reqs["start"] > 0
    /\ JobsAlive < MaxJobs
    /\ camp' = [camp EXCEPT !.reqs["start"] = @ - 1,
                            !.status = "RUNNING",
                            !.queue = @ + 1]
    /\ fx' = <<Return("campaignStart", "", NoSess)>>
    /\ UNCHANGED <<manager, bus, req, qrSeen>>

\* POST /campaign/:id/control, lines 892-948: the campaign is read and the
\* action tested against its status
CampaignControlCheck(action) ==
    /\ action # "start"
    /\ ReqsInFlight < MaxReqs
    /\ LET allowed == CASE action = "pause" -> camp.status = "RUNNING"
                         [] action = "resume" -> camp.status = "PAUSED"
                         [] action = "cancel" ->
                                camp.status \notin {"COMPLETED", "CANCELLED"}
       IN IF allowed
          THEN /\ camp' = [camp EXCEPT !.reqs[action] = @ + 1]
               /\ fx' = <<>>
          ELSE /\ fx' = <<Throw("campaignControl", "", action)>>
               /\ UNCHANGED camp
    /\ UNCHANGED <<manager, bus, req, qrSeen>>

\* POST /campaign/:id/control, the write of the action: PAUSED, RUNNING and
\* a new job (lines 929-934), or CANCELLED
CampaignControlCommit(action) ==
    /\ action # "start"
    /\ camp.reqs[action] > 0
    /\ action = "resume" => JobsAlive < MaxJobs
    /\ camp' = [camp EXCEPT
                   !.reqs[action] = @ - 1,
                   !.status = CASE action = "pause" -> "PAUSED"
                                [] action = "resume" -> "RUNNING"
                                [] action = "cancel" -> "CANCELLED",
                   !.queue = IF action = "resume" THEN @ + 1 ELSE @]
    /\ fx' = <<Return("campaignControl", "", NoSess)>>
    /\ UNCHANGED <<manager, bus, req, qrSeen>>

\* the worker takes a job from the queue (concurrency 5, line 1265) and
\* suspends at its read of the campaign, lines 1155-1160
JobTake(j) ==
    /\ camp.queue > 0
    /\ camp.jobs[j].phase = "idle"
    /\ camp' = [camp EXCEPT !.queue = @ - 1, !.jobs[j].phase = "begin"]
    /\ fx' = <<>>
    /\ UNCHANGED <<manager, bus, req, qrSeen>>

\* lines 1162-1173: a job of a campaign that is not RUNNING returns; else it
\* asks for the PENDING messages
JobBegin(j) ==
    /\ camp.jobs[j].phase = "begin"
    /\ camp' = [camp EXCEPT !.jobs[j].phase =
                      IF camp.status = "RUNNING" THEN "fetch" ELSE "idle"]
    /\ fx' = <<>>
    /\ UNCHANGED <<manager, bus, req, qrSeen>>

\* lines 1165-1198: the PENDING messages are the job's batch. None: the job
\* goes on to write COMPLETED. Instance not connected: to write PAUSED. Else
\* it enters the loop and suspends at the read of line 1203.
JobFetch(j) ==
    /\ camp.jobs[j].phase = "fetch"
    /\ LET pending == {m \in Msgs : camp.msgs[m] = "PENDING"} IN
       \E connected \in BOOLEAN :
          camp' = [camp EXCEPT !.jobs[j] =
                      IF pending = {} THEN [IdleJob EXCEPT !.phase = "complete"]
                      ELSE IF ~connected THEN [IdleJob EXCEPT !.phase = "pause"]
                      ELSE [IdleJob EXCEPT !.phase = "check", !.batch = pending]]
    /\ fx' = <<>>
    /\ UNCHANGED <<manager, bus, req, qrSeen>>

\* the job's write of COMPLETED (lines 1177-1184) or PAUSED (1191-1195)
JobFinish(j) ==
    /\ camp.jobs[j].phase \in {"complete", "pause"}
    /\ camp' = [camp EXCEPT
                   !.status = IF camp.jobs[j].phase = "complete"
                              THEN "COMPLETED" ELSE "PAUSED",
                   !.jobs[j] = IdleJob]
    /\ fx' = <<>>
    /\ UNCHANGED <<manager, bus, req, qrSeen>>

\* the message the loop of the job is at
Current(j) == CHOOSE m \in camp.jobs[j].batch : \A x \in camp.jobs[j].batch : m <= x

\* lines 1203-1209: the campaign is read again; not RUNNING, the job
\* returns; else it sends the message
JobCheck(j) ==
    /\ camp.jobs[j].phase = "check"
    /\ camp' = [camp EXCEPT !.jobs[j] =
                      IF camp.status = "RUNNING" THEN [@ EXCEPT !.phase = "send"]
                      ELSE IdleJob]
    /\ fx' = <<>>
    /\ UNCHANGED <<manager, bus, req, qrSeen>>

\* lines 1211-1220: sendText resolves, the message went out, or rejects
JobSend(j) ==
    /\ camp.jobs[j].phase = "send"
    /\ \E ok \in BOOLEAN :
          /\ camp' = [camp EXCEPT
                         !.sends[Current(j)] = IF ok THEN @ + 1 ELSE @,
                         !.jobs[j].phase = "record",
                         !.jobs[j].sent = ok]
          /\ fx' = <<Fx("campaignSend", "", NoSess,
                        IF ok THEN "sent" ELSE "failed", "", Current(j))>>
    /\ UNCHANGED <<manager, bus, req, qrSeen>>

\* lines 1222-1256: the message's status and the campaign's counter are
\* written (two updates with no read between them), then the delay passes
\* and the loop goes to its next message or, after the last one, to adding
\* the next job
JobRecord(j) ==
    /\ camp.jobs[j].phase = "record"
    /\ LET m == Current(j)
           rest == camp.jobs[j].batch \ {m}
       IN camp' = [camp EXCEPT
                      !.msgs[m] = IF camp.jobs[j].sent THEN "SENT" ELSE "FAILED",
                      !.sentMessages = IF camp.jobs[j].sent THEN @ + 1 ELSE @,
                      !.failedMessages = IF camp.jobs[j].sent THEN @ ELSE @ + 1,
                      !.jobs[j] = [phase |-> IF rest = {} THEN "requeue" ELSE "check",
                                   batch |-> rest, sent |-> FALSE]]
    /\ fx' = <<>>
    /\ UNCHANGED <<manager, bus, req, qrSeen>>

\* lines 1258-1261: the job adds the next job of the campaign and returns
JobRequeue(j) ==
    /\ camp.jobs[j].phase = "requeue"
    /\ camp' = [camp EXCEPT !.queue = @ + 1, !.jobs[j] = IdleJob]
    /\ fx' = <<>>
    /\ UNCHANGED <<manager, bus, req, qrSeen>>

CampaignLoad == Workload("campaign", {"A"}, 1, 1, 1, 0, 1, "routes")

InitCampaign ==
    /\ InitWith({CampaignLoad})
    /\ req = NoRequest
    /\ dbStatus = [id \in Ids |-> "DISCONNECTED"]

NextCampaign ==
    \/ CampaignStartCheck
    \/ CampaignStartCommit
    \/ \E a \in CampaignActions : CampaignControlCheck(a)
    \/ \E a \in CampaignActions : CampaignControlCommit(a)
    \/ \E j \in Jobs : JobTake(j)
    \/ \E j \in Jobs : JobBegin(j)
    \/ \E j \in Jobs : JobFetch(j)
    \/ \E j \in Jobs : JobFinish(j)
    \/ \E j \in Jobs : JobCheck(j)
    \/ \E j \in Jobs : JobSend(j)
    \/ \E j \in Jobs : JobRecord(j)
    \/ \E j \in Jobs : JobRequeue(j)

SpecCampaign == InitCampaign /\ [][NextCampaign]_vars

\* ------------------------------------------------------ request filter
\* The page of a session asks for a resource and the handler of page.route
\* answers it.
FilterLoad == Workload("filter", {"A"}, 1, 1, 1, 0, 1, "routes")

InitFilter ==
    /\ InitWith({FilterLoad})
    /\ dbStatus = [id \in Ids |-> "DISCONNECTED"]
    /\ req \in [resourceType : ResourceTypes, url : Urls, answer : {"pending"}]

\* the handler runs on the request: route.continue() or route.abort()
RouteRequest ==
    /\ req.answer = "pending"
    /\ req' = [req EXCEPT !.answer = routeFilter(req.resourceType, req.url)]
    /\ fx' = <<>>
    /\ UNCHANGED <<manager, bus, camp, qrSeen>>

\* the page asks for the next resource
PageRequest(resourceType, url) ==
    /\ req.answer \in {"continue", "abort"}
    /\ req' = [resourceType |-> resourceType, url |-> url, answer |-> "pending"]
    /\ fx' = <<>>
    /\ UNCHANGED <<manager, bus, camp, qrSeen>>

NextFilter ==
    \/ RouteRequest
    \/ \E resourceType \in ResourceTypes, url \in Urls : PageRequest(resourceType, url)

SpecFilter == InitFilter /\ [][NextFilter]_vars

\* ------------------------------------------ a monitor run to its limit
\* The timer of setInterval fires every 1000 ms for as long as an interval
\* is set, and the browser answers or rejects the page reads.
InitTimeout == InitWith({TimeoutLoad}) /\ req = NoRequest

NextTimeout ==
    \/ ReconnectAll
    \/ \E id \in Ids : Connect(id)
    \/ \E id \in Ids : CreateInstanceDone(id)
    \/ \E id \in Ids : CreateInstanceFail(id)
    \/ \E r \in Runs : InitializePage(r)
    \/ \E r \in Runs : TickStart(r)
    \/ \E r \in Runs : TickPane(r)
    \/ \E r \in Runs : TickProfile(r)
    \/ \E r \in Runs : TickCanvas(r)
    \/ \E s \in Sess : ContextClose(s)
    \/ \E id \in Ids : Logout(id)
    \/ \E s \in Sess : LogoutResume(s)

SpecTimeout ==
    /\ InitTimeout
    /\ [][NextTimeout]_vars
    /\ WF_vars(\E r \in Runs : TickStart(r))
    /\ WF_vars(\E r \in Runs : TickPane(r))
    /\ WF_vars(\E r \in Runs : TickProfile(r))
    /\ WF_vars(\E r \in Runs : TickCanvas(r))

\* ================================================================ claims
Effects(k, v) == {i \in DOMAIN fx : fx[i].k = k /\ fx[i].v = v}
OpenOf(id) == {s \in Sess : inst[s].id = id /\ ctx[s] = "open"}
MonitorsOf(id) ==
    {r \in Runs : runs[r].phase \in {"init", "polling"} /\ SessOf(r) \in OpenOf(id)}

\* C1: connect(id) calls that interleave never leave two browsing contexts
\* open for one instance id, nor monitors on two objects of one id.
C1_ConnectIdempotent ==
    \A id \in Ids :
        /\ Cardinality(OpenOf(id)) <= 1
        /\ Cardinality({SessOf(r) : r \in MonitorsOf(id)}) <= 1

\* C2: close wins. Once the context of an object has closed, no step makes
\* that object connected or qr, persists CONNECTED for it, or emits ready,
\* authenticated or qr for it.
C2_CloseWins ==
    [][\A s \in Sess :
          ctx[s] = "closed" =>
             /\ inst'[s].status # inst[s].status
                   => inst'[s].status \notin {"connected", "qr"}
             /\ \A i \in DOMAIN fx' :
                   fx'[i].s = s =>
                      /\ ~(fx'[i].k = "emit"
                           /\ fx'[i].v \in {"ready", "authenticated", "qr"})
                      /\ ~(fx'[i].k = "db" /\ fx'[i].v = "CONNECTED")]_vars

\* C3: after the context of an object of id has closed, getStatus(id) is
\* disconnected or not_found: at the step that reports the close, and from
\* then on until the table holds another object of id whose context has not
\* closed (a session created since).
C3_Reported ==
    \A s \in Sess :
        ctx[s] = "closed" =>
           \/ getStatus(inst[s].id) \in {"disconnected", "not_found"}
           \/ /\ instances[inst[s].id] # s
              /\ ctx[instances[inst[s].id]] # "closed"

C3_AtClose ==
    \A s \in Sess :
        (ctx[s] # "closed" /\ ctx'[s] = "closed")
           => getStatus(inst[s].id)' \in {"disconnected", "not_found"}

C3_ClosedNeverConnected == []C3_Reported /\ [][C3_AtClose]_vars

\* a context has closed while a tick of its monitor was suspended in the
\* middle of the connected transition
C3_Witness ==
    \E r \in Runs :
        /\ runs[r].ticks["profile"] > 0
        /\ ctx[SessOf(r)] = "closed"
        /\ getStatus(IdOf(r)) = "not_found"

\* C4: whenever getStatus(id) is connected, getQRCode(id) is empty.
C4_ConnectedHasNoQr ==
    \A id \in Ids :
        getStatus(id) = "connected"
           => getQRCode(id) = [qr |-> NoQr, qrBase64 |-> NoQr]

\* a session is connected while another tick of its monitor is still
\* reading the QR canvas
C4_Witness ==
    \E r \in Runs :
        /\ runs[r].ticks["canvas"] > 0
        /\ instances[IdOf(r)] = SessOf(r)
        /\ getStatus(IdOf(r)) = "connected"

\* C5: when navigation or bridge injection fails in initializePage, the
\* status of the object is back at disconnected.
C5_InitFailureReverts ==
    \A i \in DOMAIN fx :
        (fx[i].k = "log"
         /\ fx[i].d \in {"Error during page initialization",
                         "Failed to inject WPPConnect script"})
           => inst[fx[i].s].status = "disconnected"

\* C6: a messaging operation on an instance whose status is not connected
\* throws 'Instance not connected' and makes no bridge call.
C6_NotConnectedRejected ==
    \A i \in DOMAIN fx :
        (fx[i].v \in MessagingOps /\ getStatus(fx[i].id) # "connected")
           => /\ fx[i].k = "throw"
              /\ fx[i].d = "Instance not connected"

\* C7: the step in which a context closes sets the object's status to
\* disconnected, leaves no entry for its id in the table and emits exactly
\* one disconnected event, which carries that id.
C7_Closing(s) ==
    /\ inst'[s].status = "disconnected"
    /\ instances'[inst[s].id] = NoSess
    /\ \E i \in DOMAIN fx' :
          /\ fx'[i] = Emit("disconnected", inst[s].id, s, 0)
          /\ \A j \in DOMAIN fx' :
                (fx'[j].k = "emit" /\ fx'[j].v = "disconnected") => j = i

C7_CloseIsAtomic ==
    [][\A s \in Sess : (ctx[s] # "closed" /\ ctx'[s] = "closed") => C7_Closing(s)]_vars

\* the context of a connected session, the one in the table, has just closed
C7_Witness ==
    \E s \in Sess :
        /\ ctx[s] = "closed"
        /\ inst[s].status = "disconnected"
        /\ Emit("disconnected", inst[s].id, s, 0) \in {fx[i] : i \in DOMAIN fx}
        /\ dbStatus[inst[s].id] = "DISCONNECTED"
        /\ \E r \in Runs : SessOf(r) = s /\ runs[r].ticks["profile"] > 0

\* C8: a connect call that holds an object whose status is connected or
\* connecting returns that object and changes nothing.
C8_ConnectUnchanged ==
    [][\A i \in DOMAIN fx' :
          (fx'[i].k = "return" /\ fx'[i].v = "connect"
           /\ inst[fx'[i].s].status \in {"connected", "connecting"})
             => /\ fx' = <<Return("connect", inst[fx'[i].s].id, fx'[i].s)>>
                /\ UNCHANGED <<instances, inst, ctx, creating, loggingOut, runs,
                               dbStatus, presenceTimers, admin>>]_vars

\* connect has just returned the connected session of the table as it was
C8_Witness ==
    \E id \in Ids :
        /\ instances[id] # NoSess
        /\ fx = <<Return("connect", id, instances[id])>>
        /\ getStatus(id) = "connected"

\* C9: the connects of reconnectAll begin in strictly increasing turns.
C9_Staggered ==
    \A i, j \in Effects("connectStart", "reconnectAll") :
        i < j => fx[i].n < fx[j].n

\* C10: after updateInstanceSettings on a live instance, one presence
\* timer runs for it if alwaysOnline is on and none if it is off.
C10_OnePresenceTimer ==
    \A i \in DOMAIN fx :
        (fx[i].k = "settings" /\ instances[fx[i].id] # NoSess)
           => presenceTimers[fx[i].id] = IF fx[i].v = "on" THEN 1 ELSE 0

\* C11: a connect(A) that found no session returns an object whose status is
\* connecting, in the step that emits status_change for A and leaves A
\* listed by getAllInstances(); when a later disconnect(A), whose close of
\* the context did not fail, completes, the status of that object is
\* disconnected and getAllInstances() does not list A.
C11_ConnectReturns ==
    \A i \in DOMAIN fx' :
        (fx'[i].k = "return" /\ fx'[i].v = "connect"
         /\ creating'[fx'[i].id] < creating[fx'[i].id])
           => /\ inst'[fx'[i].s].status = "connecting"
              /\ Emit("status_change", fx'[i].id, fx'[i].s, 0)
                    \in {fx'[j] : j \in DOMAIN fx'}
              /\ instances'[fx'[i].id] = fx'[i].s
              /\ fx'[i].id \in getAllInstances'

C11_DisconnectCompletes ==
    \A i \in DOMAIN fx' :
        (fx'[i].k = "return" /\ fx'[i].v = "logout" /\ fx'[i].s # NoSess
         /\ \A j \in DOMAIN fx' : fx'[j].k # "caught")
           => /\ inst'[fx'[i].s].status = "disconnected"
              /\ fx'[i].id \notin getAllInstances'

C12_FailsIn(b) ==
    \/ \E s \in Sess : inst[s].id = b /\ ctx[s] # "closed" /\ ctx'[s] = "closed"
    \/ \E i \in DOMAIN fx' : fx'[i].k = "log" /\ fx'[i].id = b
    \/ \E r \in Runs :
          /\ runs[r].phase # "free"
          /\ IdOf(r) = b
          /\ runs'[r] # runs[r]

C12_Untouched(a) ==
    /\ instances'[a] = instances[a]
    /\ \A s \in Sess : inst[s].id = a => (inst'[s] = inst[s] /\ ctx'[s] = ctx[s])
    /\ \A r \in Runs :
          (runs[r].phase # "free" /\ IdOf(r) = a) => runs'[r] = runs[r]

C12_Isolation ==
    [][\A a, b \in Ids : (a # b /\ C12_FailsIn(b)) => C12_Untouched(a)]_vars

\* B's context has just closed while A shows a QR and its monitor polls
C12_Witness ==
    \E sa, sb \in Sess :
        /\ inst[sa].id = "A" /\ inst[sb].id = "B"
        /\ ctx[sb] = "closed"
        /\ Emit("disconnected", "B", sb, 0) \in {fx[i] : i \in DOMAIN fx}
        /\ instances["A"] = sa
        /\ inst[sa].status = "qr"
        /\ inst[sa].qrCodeBase64 # NoQr
        /\ \E r \in Runs : runs[r].phase = "polling" /\ SessOf(r) = sa

\* C13: when logout(id) or disconnect(id) returns, the table has no entry
\* for id and, if the call found a session, the context of that session is
\* closed, also when context.close() raised an error.
C13_LogoutTearsDown ==
    \A i \in DOMAIN fx :
        (fx[i].k = "return" /\ fx[i].v = "logout")
           => /\ instances[fx[i].id] = NoSess
              /\ fx[i].s # NoSess => ctx[fx[i].s] = "closed"

\* C14: no two objects of one instance id have their browsing contexts
\* open at the same time (at most one live session per id).
C14_OneLiveSession ==
    \A s1, s2 \in Sess :
        (ctx[s1] = "open" /\ ctx[s2] = "open" /\ inst[s1].id = inst[s2].id)
           => s1 = s2

\* C15: the number of persisted instances never exceeds WA_MAX_INSTANCES.
C15_WithinLimit == instanceCount <= waMaxInstances

\* C16: when DELETE /admin/instance/:id has completed, the table has no
\* entry for id and the store has no row for id.
C16_DeletedIsGone ==
    \A i \in DOMAIN fx :
        (fx[i].k = "return" /\ fx[i].v = "adminDelete")
           => /\ instances[fx[i].id] = NoSess
              /\ fx[i].id \notin admin.rows

\* C17: the ticks of one monitor are strictly sequential: at most one tick
\* of a monitor is suspended on a page read or on the connected-transition
\* work at any time.
C17_TicksSequential ==
    \A r \in Runs : runs[r].phase # "free" => Inflight(r) <= 1

\* C18: connected is terminal for the monitor: an object whose status is
\* connected keeps that status in every step that does not close its
\* context.
C18_ConnectedIsTerminal ==
    [][\A s \in Sess :
          (inst[s].status = "connected" /\ ctx'[s] # "closed")
             => inst'[s].status = "connected"]_vars

\* C19: a tick that has set the status to connected and whose context has
\* not closed ends its connected-transition work by persisting CONNECTED,
\* emitting ready and then authenticated, once each, and stopping the
\* monitor.
C19_Completes(r) ==
    /\ Persist(IdOf(r), SessOf(r), "CONNECTED") \in {fx'[i] : i \in DOMAIN fx'}
    /\ \E i, j \in DOMAIN fx' :
          /\ i < j
          /\ fx'[i] = Emit("ready", IdOf(r), SessOf(r), 0)
          /\ fx'[j] = Emit("authenticated", IdOf(r), SessOf(r), 0)
          /\ \A k \in DOMAIN fx' :
                (fx'[k].k = "emit" /\ fx'[k].v = "ready") => k = i
          /\ \A k \in DOMAIN fx' :
                (fx'[k].k = "emit" /\ fx'[k].v = "authenticated") => k = j
    /\ runs'[r].phase \in {"stopped", "free"}

C19_ConnectedTransitionCompletes ==
    [][\A r \in Runs :
          (/\ runs[r].phase # "free"
           /\ runs'[r].ticks["profile"] < runs[r].ticks["profile"]
           /\ ctx'[SessOf(r)] = "open")
             => C19_Completes(r)]_vars

\* C20: at most one monitor is polling a given session object.
C20_OneMonitorPerSession ==
    \A s \in Sess :
        Cardinality({r \in Runs : runs[r].phase = "polling" /\ SessOf(r) = s}) <= 1

\* C21: logout and the close listener remove only the session whose context
\* they closed: the step in which logout returns for an object, or in which
\* disconnected is emitted for an object, leaves the table's entry of that
\* id as it was unless the entry was that object.
C21_RemovesOwnEntry ==
    [][\A i \in DOMAIN fx' :
          (\/ (fx'[i].k = "return" /\ fx'[i].v = "logout" /\ fx'[i].s # NoSess)
           \/ (fx'[i].k = "emit" /\ fx'[i].v = "disconnected"))
             => \/ instances[fx'[i].id] = fx'[i].s
                \/ instances'[fx'[i].id] = instances[fx'[i].id]]_vars

\* C22: at most one browser process is live at any time, and the sessions
\* whose contexts are open were all created in the same browser.
C22_OneSharedBrowser ==
    /\ Cardinality(pool.live) <= 1
    /\ \A s1, s2 \in Sess :
          (ctx[s1] = "open" /\ ctx[s2] = "open") => pool.of[s1] = pool.of[s2]

\* C23: no write of a status transition that the store rejects goes
\* unhandled.
C23_StoreFailureContained ==
    \A i \in DOMAIN fx : fx[i].k # "unhandledRejection"

\* C24: a tick that catches the error of a page read changes nothing in
\* that step, has made no assignment before it (the reads of the pane and of
\* the canvas precede every assignment of a tick, the read at line 353
\* follows lines 348-350), and leaves its monitor polling.
C24_TickErrorSwallowed ==
    [][\A i \in DOMAIN fx' :
          (fx'[i].k = "caught" /\ fx'[i].v = "tick")
             => /\ inst' = inst
                /\ fx'[i].d \in {"pane", "canvas"}
                /\ runs[fx'[i].n].phase = "polling"
                      => runs'[fx'[i].n].phase = "polling"]_vars

\* C25: a qr event of an object never carries the payload of the previous qr
\* event of that object, and an object whose status is qr has a stored
\* qrBase64.
C25_QrOnlyOnChange ==
    [][\A s \in Sess :
          /\ \A i \in DOMAIN fx' :
                (fx'[i].k = "emit" /\ fx'[i].v = "qr" /\ fx'[i].s = s)
                   => fx'[i].n # qrSeen[s]
          /\ inst'[s].status = "qr" => inst'[s].qrCodeBase64 # NoQr]_vars

C26_TimesOut(r) ==
    /\ runs[r].phase = "polling"
    /\ runs[r].attempts > AttemptLimit
    /\ runs'[r].phase # "polling"
    /\ Inflight(r) = 0 \/ runs'[r].ticks = runs[r].ticks

C27_Lost(s) == ctx[s] \in {"open", "closing"} /\ ~BrowserAlive(s)

C27_SharedIsLive == pool.shared # NoBrowser => pool.shared \in pool.live

C27_Obtains(id) ==
    \/ pool'.calls[id][NoBrowser] > pool.calls[id][NoBrowser]
    \/ \E b \in pool.live : pool'.calls[id][b] > pool.calls[id][b]

C27_BrowserLoss ==
    /\ \A s \in Sess :
          C27_Lost(s) ~> (ctx[s] = "closed" /\ inst[s].status = "disconnected")
    /\ [][\A s \in Sess : (C27_Lost(s) /\ ctx'[s] = "closed") => C7_Closing(s)]_vars
    /\ []C27_SharedIsLive
    /\ [][\A id \in Ids :
            (creating'[id] < creating[id] /\ pool'.calls[id] # pool.calls[id])
               => C27_Obtains(id)]_vars

\* the browser of a session has terminated and the session was closed as
\* disconnected; the table holds a session created since, in a browser
\* launched after the loss
C27_Witness ==
    \E s1, s2 \in Sess :
        /\ pool.of[s1] # NoBrowser /\ pool.of[s1] \notin pool.live
        /\ ctx[s1] = "closed"
        /\ inst[s1].status = "disconnected"
        /\ instances[inst[s1].id] = s2
        /\ pool.of[s2] \in pool.live
        /\ pool.shared = pool.of[s2]
        /\ pool.live = {pool.of[s2]}
        /\ ctx[s2] = "open"

\* C28: once the client of a stream has disconnected, the handlers the
\* stream registered on the bus are removed.
C28_ListenersRemoved ==
    \A st \in Streams : (bus[st].phase = "gone") ~> (bus[st].handlers = {})

\* C29: no message of the campaign is sent more than once, a message's
\* status changes only from PENDING, and sentMessages + failedMessages does
\* not exceed totalMessages.
C29_AtMostOnce ==
    /\ [](/\ \A m \in Msgs : camp.sends[m] <= 1
          /\ camp.sentMessages + camp.failedMessages <= camp.totalMessages)
    /\ [][\A m \in Msgs :
            camp'.msgs[m] # camp.msgs[m] => camp.msgs[m] = "PENDING"]_vars

\* C30: the filter aborts every image, font and media request, every
\* request whose URL includes one of the blocked analytics and tracking
\* domains and every stylesheet whose URL does not include web.whatsapp.com;
\* a request that continues is a document, script, xhr, fetch or websocket
\* request whose URL includes 'whatsapp' or 'wa.me'.
C30_Tracking(url) == \E domain \in blockedDomains : Includes(url, domain)

C30_WhatsAppEndpoint(url) == Includes(url, Whatsapp) \/ Includes(url, WaMe)

C30_FilterAllowsOnlyWhatsApp ==
    req.answer \in {"continue", "abort"} =>
       /\ req.resourceType \in {"image", "font", "media"} => req.answer = "abort"
       /\ C30_Tracking(req.url) => req.answer = "abort"
       /\ (req.resourceType = "stylesheet" /\ ~Includes(req.url, WebWhatsapp))
             => req.answer = "abort"
       /\ req.answer = "continue"
             => /\ req.resourceType \in
                      {"document", "script", "xhr", "fetch", "websocket"}
                /\ C30_WhatsAppEndpoint(req.url)

====
